---- MODULE Spec2Model ----
(***************************************************************************)
(* Model of the useAuth hook (src/src/auth/hooks/useAuth.ts): the wallet   *)
(* session (connect / connectLedger / disconnect / lock) and the signing   *)
(* operations (createSignature, getPubkey, sign, signBytes, post).         *)
(*                                                                         *)
(* The keystore scripts (../scripts/keystore, ../scripts/is) are not part  *)
(* of the sources at hand; they are modelled from their contract in the    *)
(* specification (KeyStoreGateway, section 6) and kept apart below.        *)
(***************************************************************************)
EXTENDS Integers, Sequences, FiniteSets, TLC

(* ------------------------------ bounds -------------------------------- *)
\* passwords are 0..MaxPassword; 0 is the empty default password "", 1 the one
\* the stored wallets were encrypted under, any other a wrong one
MaxPassword == 1
\* ledger device index / seed derivation index range 0..MaxIndex
MaxIndex == 1
\* byte payloads handed to signBytes are 0..MaxPayload
MaxPayload == 0
\* account numbers and sequence numbers are 0..MaxAccount
MaxAccount == 1

(* ------------------------- program constants -------------------------- *)
DefaultCoinType == 330
LegacyCoinType == 118

(* ------------------------------ domains -------------------------------- *)
Names == {"A", "Ledger"}
Passwords == 0..MaxPassword
Indexes == 0..MaxIndex
Payloads == 0..MaxPayload
\* the coin types a stored raw key record may carry an entry for
KeyCoinTypes == {DefaultCoinType, LegacyCoinType}
\* SignatureV2.SignMode values a caller may pass; "undefined" is the omitted argument
SignModes == {"undefined", "SIGN_MODE_DIRECT", "SIGN_MODE_LEGACY_AMINO_JSON"}
ChainIDs == {"phoenix-1", "osmosis-1", "injective-1"}

\* ChainRegistry: useNetwork() maps a chain id to its coin type
networks ==
  [c \in ChainIDs |->
     [coinType |-> CASE c = "phoenix-1" -> DefaultCoinType
                     [] c = "osmosis-1" -> LegacyCoinType
                     [] OTHER -> 60]]

(* ------------------------- keystore (contract) ------------------------- *)
\* the password each named wallet was encrypted under (never the empty one)
PasswordOf(name) == 1

NoKeyRecord == [type |-> "none", legacy |-> FALSE, index |-> 0, has |-> {}]
SeedRecord(legacy, index) ==
  [type |-> "seed", legacy |-> legacy, index |-> index, has |-> {}]
RawKeyRecord(has) == [type |-> "raw", legacy |-> FALSE, index |-> 0, has |-> has]

KeyRecords ==
  {SeedRecord(l, i) : l \in BOOLEAN, i \in Indexes}
    \cup {RawKeyRecord(h) : h \in (SUBSET KeyCoinTypes) \ {{}}}

\* a stored wallet record; address = TRUE is the address-shaped (old) record
StoredRecord(address, multisig, ledger, lock, key, index, bluetooth) ==
  [address |-> address, multisig |-> multisig, ledger |-> ledger, lock |-> lock,
   key |-> key, index |-> index, bluetooth |-> bluetooth]

LedgerRecord(index, bluetooth, lock) ==
  StoredRecord(FALSE, FALSE, TRUE, lock, NoKeyRecord, index, bluetooth)

StoredRecords ==
  \* address-shaped: a single encrypted key (coin type 330), or a multisig
  {StoredRecord(TRUE, FALSE, FALSE, l, RawKeyRecord({DefaultCoinType}), 0, FALSE) :
     l \in BOOLEAN}
    \cup {StoredRecord(TRUE, TRUE, FALSE, l, NoKeyRecord, 0, FALSE) : l \in BOOLEAN}
  \* descriptor-shaped: encrypted seed, encrypted per-coin-type keys, or ledger
    \cup {StoredRecord(FALSE, FALSE, FALSE, l, k, 0, FALSE) :
            l \in BOOLEAN, k \in KeyRecords}
    \cup {LedgerRecord(i, b, l) : i \in Indexes, b \in BOOLEAN, l \in BOOLEAN}

NoWallet == [name |-> "", multisig |-> FALSE, ledger |-> FALSE, index |-> 0,
             bluetooth |-> FALSE, connected |-> FALSE]

Descriptor(name, multisig, ledger, index, bluetooth) ==
  [name |-> name, multisig |-> multisig, ledger |-> ledger, index |-> index,
   bluetooth |-> bluetooth, connected |-> TRUE]

VARIABLES
  wallet,        \* walletState atom: the in-memory session wallet
  persisted,     \* keystore's connected-wallet choice (storeWallet / clearWallet)
  wallets,       \* keystore's stored wallet records, by name
  lockedByLock,  \* history: names whose record lock() set and that are still locked
  last,          \* observation of the last call: its inputs, outcome and collaborator calls
  keyUsed        \* history: a call has decrypted the key of the wallet now connected

vars == <<wallet, persisted, wallets, lockedByLock, last, keyUsed>>

\* is.multisig / is.ledger / is.local on a wallet
isMultisig(w) == w.multisig
isLedger(w) == w.connected /\ w.ledger
isLocal(w) == w.connected

\* getStoredWallet(name) exists
hasStoredWallet(name) == name \in DOMAIN wallets
getStoredWallet(name) == wallets[name]

\* lockWallet(name): the stored record of name gets its lock flag set
lockWallet(ws, name) ==
  IF name \in DOMAIN ws THEN [ws EXCEPT ![name].lock = TRUE] ELSE ws

\* addWallet(record): names are unique in the store; adding an existing name
\* either is rejected (replace = FALSE) or replaces the record
addWalletRejects(ws, name, replace) == name \in DOMAIN ws /\ ~replace
addWallet(ws, name, record) ==
  [n \in DOMAIN ws \cup {name} |-> IF n = name THEN record ELSE ws[n]]

\* getDecryptedKey({name, password}): the key record, or no key
getDecryptedKey(ws, name, password) ==
  IF name \in DOMAIN ws /\ ws[name].key.type # "none" /\ password = PasswordOf(name)
    THEN ws[name].key
    ELSE NoKeyRecord

(* ------------------------------ outcomes ------------------------------- *)
NoSigningKey == [kind |-> "none", owner |-> "", coinType |-> 0, index |-> 0,
                 bluetooth |-> FALSE]
NoDoc == [chainID |-> "", accountNumber |-> 0, sequence |-> 0, present |-> FALSE]
NoResult == [kind |-> "none", txError |-> FALSE, raw_log |-> ""]
\* the inputs of a call: the wallet name, the chain id and its coin type (or the coin
\* type asked for), the password, the sign mode, the broadcast collaborator's answer
NoArgs == [name |-> "", chainID |-> "", coinType |-> 0, password |-> 0,
           signMode |-> "undefined", broadcast |-> NoResult,
           \* the account the account-info collaborator answered with
           accountInfo |-> NoDoc,
           \* connectLedger's index, bluetooth and name arguments as passed
           given |-> <<>>]
Produced(kind) == [kind |-> kind, txError |-> FALSE, raw_log |-> ""]

\* encrypt(msg, password) / decrypt(cipher, password): the symmetric primitive of
\* ../scripts/encrypt, an inverse pair under the same password and no more
encrypt(msg, password) == [cipher |-> msg, under |-> password]
decrypt(encrypted, password) ==
  IF encrypted.under = password THEN encrypted.cipher ELSE NoSigningKey

\* the address of the exported wallet: of the derived key, or of the stored words
NoAddress == [owner |-> "", coinType |-> 0, derived |-> FALSE]
\* encode(JSON.stringify(data)) of js-base64 and its inverse
encode(data) == [base64 |-> data]
decode(blob) == blob.base64
NoBlob == encode([name |-> "", address |-> NoAddress,
                  encrypted_key |-> encrypt(NoSigningKey, 0)])

\* what one call did: the collaborator calls it made in order (log), the key it
\* signed with, the sign mode and sign document it handed on, and what it
\* returned (result; returned, the wallet getConnectedWallet gave back) or threw
\* (err, msg), and the session wallet the call started from (before)
Outcome(op, args, err, msg, log, key, signMode, doc, result) ==
  [op |-> op, args |-> args, err |-> err, msg |-> msg, log |-> log, key |-> key,
   signMode |-> signMode, doc |-> doc, result |-> result,
   returned |-> NoWallet, before |-> wallet, blob |-> NoBlob]

Failure(op, args, err, log) ==
  Outcome(op, args, err, "", log, NoSigningKey, "", NoDoc, NoResult)

SessionOutcome(op, name, err) ==
  Failure(op, [NoArgs EXCEPT !.name = name], err, <<>>)

(* ------------------------------ session -------------------------------- *)
\* connect without the lock test of the descriptor-shaped branch
connect_NoLockCheck(name) ==
  /\ hasStoredWallet(name)
  /\ LET storedWallet == getStoredWallet(name) IN
       IF storedWallet.address /\ storedWallet.lock
         THEN /\ last' = SessionOutcome("connect", name, "WalletLocked")
              /\ UNCHANGED <<wallet, persisted, wallets, lockedByLock>>
         ELSE LET w == IF storedWallet.address
                         THEN Descriptor(name, isMultisig(storedWallet), FALSE, 0, FALSE)
                         ELSE Descriptor(name, storedWallet.multisig, storedWallet.ledger,
                                         storedWallet.index, storedWallet.bluetooth)
              IN /\ persisted' = w
                 /\ wallet' = w
                 /\ last' = SessionOutcome("connect", name, "")
                 /\ UNCHANGED <<wallets, lockedByLock>>

connect(name) ==
  /\ hasStoredWallet(name)
  /\ LET storedWallet == getStoredWallet(name) IN
       IF storedWallet.address
         THEN IF storedWallet.lock
                THEN /\ last' = SessionOutcome("connect", name, "WalletLocked")
                     /\ UNCHANGED <<wallet, persisted, wallets, lockedByLock>>
                ELSE LET w == Descriptor(name, isMultisig(storedWallet), FALSE, 0, FALSE)
                     IN /\ persisted' = w
                        /\ wallet' = w
                        /\ last' = SessionOutcome("connect", name, "")
                        /\ UNCHANGED <<wallets, lockedByLock>>
         ELSE IF storedWallet.lock
                THEN /\ last' = SessionOutcome("connect", name, "WalletLocked")
                     /\ UNCHANGED <<wallet, persisted, wallets, lockedByLock>>
                ELSE LET w == Descriptor(name, storedWallet.multisig, storedWallet.ledger,
                                         storedWallet.index, storedWallet.bluetooth)
                     IN /\ persisted' = w
                        /\ wallet' = w
                        /\ last' = SessionOutcome("connect", name, "")
                        /\ UNCHANGED <<wallets, lockedByLock>>

\* connect(name) for a name the keystore has no record of: getStoredWallet fails
connectUnknown(name) ==
  /\ ~hasStoredWallet(name)
  /\ last' = SessionOutcome("connect", name, "WalletNotFound")
  /\ UNCHANGED <<wallet, persisted, wallets, lockedByLock>>

\* an optional argument: <<>> when the caller leaves it out, <<v>> when v is passed
Optional(S) == {<<>>} \cup {<<v>> : v \in S}
\* a parameter with a default value: index = 0, bluetooth = false, name = "Ledger"
orDefault(arg, default) == IF arg = <<>> THEN default ELSE arg[1]

\* the session wallet of connectLedger without the transport it was given
ledgerWallet_UsbOnly(index, bluetooth, name) ==
  Descriptor(name, FALSE, TRUE, index, FALSE)

\* the wallet connectLedger builds, as the session holds it
ledgerWallet(index, bluetooth, name) ==
  Descriptor(name, FALSE, TRUE, index, bluetooth)

connectLedger(index, bluetooth, name, replace) ==
  LET i == orDefault(index, 0)
      b == orDefault(bluetooth, FALSE)
      n == orDefault(name, "Ledger")
      done(err) == [SessionOutcome("connectLedger", n, err)
                      EXCEPT !.args.given = <<index, bluetooth, name>>]
  IN
  IF addWalletRejects(wallets, n, replace)
    THEN /\ last' = done("WalletExists")
         /\ UNCHANGED <<wallet, persisted, wallets, lockedByLock>>
    ELSE LET w == ledgerWallet(i, b, n) IN
           /\ wallets' = addWallet(wallets, n, LedgerRecord(i, b, FALSE))
           /\ persisted' = w
           /\ wallet' = w
           /\ lockedByLock' = lockedByLock \ {n}
           /\ last' = done("")

\* connectedWallet that leaves hardware wallets out
connectedWallet_NoLedger ==
  IF isLocal(wallet) /\ ~wallet.ledger THEN wallet ELSE NoWallet

\* connectedWallet: the session wallet if is.local, undefined otherwise
connectedWallet == IF isLocal(wallet) THEN wallet ELSE NoWallet

\* getConnectedWallet: throws when connectedWallet is undefined
getConnectedWalletResult ==
  IF ~connectedWallet.connected
    THEN SessionOutcome("getConnectedWallet", "", "NoWalletConnected")
    ELSE [SessionOutcome("getConnectedWallet", connectedWallet.name, "")
            EXCEPT !.returned = connectedWallet]

getConnectedWallet ==
  /\ last' = getConnectedWalletResult
  /\ UNCHANGED <<wallet, persisted, wallets, lockedByLock>>

\* disconnect that, like lock, refuses when no wallet is connected
disconnect_OnlyWhenConnected ==
  IF ~wallet.connected
    THEN /\ last' = SessionOutcome("disconnect", "", "NoWalletConnected")
         /\ UNCHANGED <<wallet, persisted, wallets, lockedByLock>>
    ELSE /\ persisted' = NoWallet
         /\ wallet' = NoWallet
         /\ last' = SessionOutcome("disconnect", "", "")
         /\ UNCHANGED <<wallets, lockedByLock>>

\* disconnect that leaves the persisted choice in the keystore
disconnect_KeepsPersisted ==
  /\ wallet' = NoWallet
  /\ last' = SessionOutcome("disconnect", "", "")
  /\ UNCHANGED <<persisted, wallets, lockedByLock>>

disconnect ==
  /\ persisted' = NoWallet
  /\ wallet' = NoWallet
  /\ last' = SessionOutcome("disconnect", "", "")
  /\ UNCHANGED <<wallets, lockedByLock>>

\* lock that marks the record but leaves the session connected
lock_NoDisconnect ==
  IF ~connectedWallet.connected
    THEN /\ last' = SessionOutcome("lock", "", "NoWalletConnected")
         /\ UNCHANGED <<wallet, persisted, wallets, lockedByLock>>
    ELSE /\ wallets' = lockWallet(wallets, connectedWallet.name)
         /\ lockedByLock' = lockedByLock \cup {connectedWallet.name}
         /\ last' = SessionOutcome("lock", connectedWallet.name, "")
         /\ UNCHANGED <<wallet, persisted>>

\* lock that disconnects without marking the stored record
lock_NoMark ==
  IF ~connectedWallet.connected
    THEN /\ last' = SessionOutcome("lock", "", "NoWalletConnected")
         /\ UNCHANGED <<wallet, persisted, wallets, lockedByLock>>
    ELSE /\ persisted' = NoWallet
         /\ wallet' = NoWallet
         /\ last' = SessionOutcome("lock", connectedWallet.name, "")
         /\ UNCHANGED <<wallets, lockedByLock>>

lock ==
  IF ~connectedWallet.connected
    THEN /\ last' = SessionOutcome("lock", "", "NoWalletConnected")
         /\ UNCHANGED <<wallet, persisted, wallets, lockedByLock>>
    ELSE /\ wallets' = lockWallet(wallets, connectedWallet.name)
         /\ persisted' = NoWallet
         /\ wallet' = NoWallet
         /\ lockedByLock' = lockedByLock \cup {connectedWallet.name}
         /\ last' = SessionOutcome("lock", connectedWallet.name, "")

(* ------------------------------- keys ---------------------------------- *)
\* new SeedKey({seed, coinType, index}) over the seed of wallet owner
SeedKey(owner, coinType, index) ==
  [kind |-> "seed", owner |-> owner, coinType |-> coinType, index |-> index,
   bluetooth |-> FALSE]
\* new RawKey(Buffer.from(pk[coinType], "hex")): the stored key of that coin type
RawKey(owner, coinType) ==
  [kind |-> "raw", owner |-> owner, coinType |-> coinType, index |-> 0,
   bluetooth |-> FALSE]
\* LedgerKey.create({transport, index, coinType})
LedgerKey(index, bluetooth, coinType) ==
  [kind |-> "ledger", owner |-> "", coinType |-> coinType, index |-> index,
   bluetooth |-> bluetooth]

\* getKey(password): getConnectedWallet, then getDecryptedKey
\* getKey that keeps the key of an earlier call and hands it out again
getKey_Cached(password) ==
  getDecryptedKey(wallets, connectedWallet.name,
                  IF keyUsed THEN PasswordOf(connectedWallet.name) ELSE password)

getKey(password) ==
  getDecryptedKey(wallets, connectedWallet.name, password)

\* the coinType expression of the seed branch of createSignature
createSignatureCoinType(pk, coinType) ==
  IF pk.legacy /\ coinType = DefaultCoinType THEN LegacyCoinType ELSE coinType

\* the seed branch of getPubkey without the legacy fallback
getPubkeyCoinType_NoLegacy(pk, coinType) == coinType

\* the coinType expression of the seed branch of getPubkey
getPubkeyCoinType(pk, coinType) ==
  IF pk.legacy THEN LegacyCoinType ELSE coinType

\* the coinType expression of the seed branch of sign
signCoinType(pk, coinType) ==
  IF pk.legacy /\ coinType = DefaultCoinType THEN LegacyCoinType ELSE coinType

\* the seed branch of signBytes without the legacy fallback
signBytesCoinType_NoLegacy(pk) == DefaultCoinType

\* the coinType expression of the seed branch of signBytes
signBytesCoinType(pk) ==
  IF pk.legacy THEN LegacyCoinType ELSE DefaultCoinType

(* ------------------------------ signing -------------------------------- *)
\* lcd.auth.accountInfo(address): the account's number and sequence, or nothing
AccountInfos ==
  {NoDoc} \cup
    [chainID : {""}, accountNumber : 0..MaxAccount, sequence : 0..MaxAccount,
     present : {TRUE}]

\* a SignDoc built with the account number and the sequence number exchanged
SignDoc_Swapped(chainID, accountInfo) ==
  [accountInfo EXCEPT !.chainID = chainID,
                      !.accountNumber = accountInfo.sequence,
                      !.sequence = accountInfo.accountNumber]

\* new SignDoc(chainID, accountNumber, sequenceNumber, auth_info, body)
SignDoc(chainID, accountInfo) == [accountInfo EXCEPT !.chainID = chainID]

SignArgs(chainID, password, signMode) ==
  [NoArgs EXCEPT !.chainID = chainID, !.coinType = networks[chainID].coinType,
                 !.password = password, !.signMode = signMode]

\* the test of the decrypted key that lets every key pass
noKey_Never(pk) == FALSE

\* if (!pk) throw new PasswordError("Incorrect password")
noKey(pk) == pk.type = "none"

\* the test of the raw key entry: if (!pk[coinType]) throw new PasswordError(...)
noEntry(pk, coinType) == coinType \notin pk.has

\* the sign mode of the ledger branch taken from the caller
ledgerSignMode_FromCaller(signMode) == signMode

\* the signMode sign hands to createAndSignTx in its ledger branch
ledgerSignMode(signMode) == "SIGN_MODE_LEGACY_AMINO_JSON"

\* the signMode sign hands to createAndSignTx in its seed branch
seedSignMode(signMode) == signMode

\* the raw branch of sign calls createAndSignTx(txOptions): no signMode is handed on
rawSignMode(signMode) == "undefined"

createSignatureResult(chainID, password, accountInfo) ==
  LET args == [SignArgs(chainID, password, "undefined")
                 EXCEPT !.accountInfo = accountInfo]
      op == "createSignature"
      coinType == networks[chainID].coinType
      doc == SignDoc(chainID, accountInfo)
  IN
  IF ~wallet.connected THEN Failure(op, args, "NoWalletConnected", <<>>)
  ELSE IF ~accountInfo.present
    THEN Failure(op, args, "AccountNotFound", <<"accountInfo">>)
  ELSE IF isLedger(wallet)
    THEN Outcome(op, args, "", "", <<"accountInfo", "openDevice", "signAmino">>,
                 LedgerKey(wallet.index, wallet.bluetooth, coinType),
                 "SIGN_MODE_LEGACY_AMINO_JSON", doc, Produced("signature"))
  ELSE LET pk == getKey(password) IN
    IF noKey(pk)
      THEN Failure(op, args, "PasswordError", <<"accountInfo", "decrypt">>)
    \* "seed" in pk of no key at all is a TypeError
    ELSE IF pk.type = "none"
      THEN Failure(op, args, "TypeError", <<"accountInfo", "decrypt">>)
    ELSE IF pk.type = "seed"
      THEN Outcome(op, args, "", "", <<"accountInfo", "decrypt", "signAmino">>,
                   SeedKey(wallet.name, createSignatureCoinType(pk, coinType), pk.index),
                   "SIGN_MODE_LEGACY_AMINO_JSON", doc, Produced("signature"))
    ELSE IF noEntry(pk, coinType)
      THEN Failure(op, args, "PasswordError", <<"accountInfo", "decrypt">>)
      ELSE Outcome(op, args, "", "", <<"accountInfo", "decrypt", "signAmino">>,
                   RawKey(wallet.name, coinType),
                   "SIGN_MODE_LEGACY_AMINO_JSON", doc, Produced("signature"))

\* the ledger branch of getPubkey refusing the empty password
getPubkeyLedger_AsksPassword(args, coinType, password) ==
  IF password = 0
    THEN Failure("getPubkey", args, "PasswordError", <<>>)
    ELSE Outcome("getPubkey", args, "", "", <<"openDevice">>,
                 LedgerKey(wallet.index, wallet.bluetooth, coinType),
                 "", NoDoc, Produced("pubkey"))

\* the ledger branch of getPubkey: getLedgerKey(coinType), then key.publicKey.key
getPubkeyLedger(args, coinType, password) ==
  Outcome("getPubkey", args, "", "", <<"openDevice">>,
          LedgerKey(wallet.index, wallet.bluetooth, coinType),
          "", NoDoc, Produced("pubkey"))

getPubkeyResult(coinType, password) ==
  LET args == [NoArgs EXCEPT !.coinType = coinType, !.password = password]
      op == "getPubkey"
  IN
  IF ~wallet.connected THEN Failure(op, args, "NoWalletConnected", <<>>)
  ELSE IF isLedger(wallet)
    THEN getPubkeyLedger(args, coinType, password)
  ELSE LET pk == getKey(password) IN
    IF noKey(pk)
      THEN Failure(op, args, "PasswordError", <<"decrypt">>)
    ELSE IF pk.type = "none"
      THEN Failure(op, args, "TypeError", <<"decrypt">>)
    ELSE IF pk.type = "seed"
      THEN Outcome(op, args, "", "", <<"decrypt">>,
                   SeedKey(wallet.name, getPubkeyCoinType(pk, coinType), pk.index),
                   "", NoDoc, Produced("pubkey"))
    ELSE IF noEntry(pk, coinType)
      THEN Failure(op, args, "PasswordError", <<"decrypt">>)
      ELSE Outcome(op, args, "", "", <<"decrypt">>, RawKey(wallet.name, coinType),
                   "", NoDoc, Produced("pubkey"))

signResult(chainID, password, signMode) ==
  LET args == SignArgs(chainID, password, signMode)
      op == "sign"
      coinType == networks[chainID].coinType
  IN
  IF ~wallet.connected THEN Failure(op, args, "NoWalletConnected", <<>>)
  ELSE IF isLedger(wallet)
    THEN Outcome(op, args, "", "", <<"openDevice", "createAndSignTx">>,
                 LedgerKey(wallet.index, wallet.bluetooth, coinType),
                 ledgerSignMode(signMode), NoDoc, Produced("tx"))
  ELSE LET pk == getKey(password) IN
    IF noKey(pk)
      THEN Failure(op, args, "PasswordError", <<"decrypt">>)
    ELSE IF pk.type = "none"
      THEN Failure(op, args, "TypeError", <<"decrypt">>)
    ELSE IF pk.type = "seed"
      THEN Outcome(op, args, "", "", <<"decrypt", "createAndSignTx">>,
                   SeedKey(wallet.name, signCoinType(pk, coinType), pk.index),
                   seedSignMode(signMode), NoDoc, Produced("tx"))
    ELSE IF noEntry(pk, coinType)
      THEN Failure(op, args, "PasswordError", <<"decrypt">>)
      ELSE Outcome(op, args, "", "", <<"decrypt", "createAndSignTx">>,
                   RawKey(wallet.name, coinType), rawSignMode(signMode), NoDoc,
                   Produced("tx"))

\* the ledger branch of signBytes asking the device first
signBytesLedger_OpensDevice ==
  Failure("signBytes", NoArgs, "UnsupportedOperation", <<"openDevice">>)

\* the ledger branch of signBytes: throw new Error("Ledger can not sign arbitrary data")
signBytesLedger ==
  Failure("signBytes", NoArgs, "UnsupportedOperation", <<>>)

signBytesResult(bytes, password, sigOk) ==
  LET args == [NoArgs EXCEPT !.password = password]
      op == "signBytes"
  IN
  IF ~wallet.connected THEN Failure(op, args, "NoWalletConnected", <<>>)
  ELSE IF isLedger(wallet)
    THEN [signBytesLedger EXCEPT !.args = args]
  ELSE LET pk == getKey(password) IN
    IF noKey(pk)
      THEN Failure(op, args, "PasswordError", <<"decrypt">>)
    ELSE IF pk.type = "none"
      THEN Failure(op, args, "TypeError", <<"decrypt">>)
    ELSE IF pk.type = "seed"
      THEN IF ~sigOk
             THEN Failure(op, args, "SignatureUnavailable", <<"decrypt", "ecdsaSign">>)
             ELSE Outcome(op, args, "", "", <<"decrypt", "ecdsaSign">>,
                          SeedKey(wallet.name, signBytesCoinType(pk), pk.index),
                          "", NoDoc, Produced("signedBytes"))
    \* Buffer.from(pk["330"], "hex") of a missing entry is a TypeError
    ELSE IF DefaultCoinType \notin pk.has
      THEN Failure(op, args, "TypeError", <<"decrypt">>)
    ELSE IF ~sigOk
      THEN Failure(op, args, "SignatureUnavailable", <<"decrypt", "ecdsaSign">>)
      ELSE Outcome(op, args, "", "", <<"decrypt", "ecdsaSign">>,
                   RawKey(wallet.name, DefaultCoinType), "", NoDoc,
                   Produced("signedBytes"))

\* lcd.tx.broadcastSync results: accepted, or a transaction-level error with its raw log
BroadcastResults ==
  {[kind |-> "broadcast", txError |-> FALSE, raw_log |-> ""],
   [kind |-> "broadcast", txError |-> TRUE, raw_log |-> "out of gas"]}

isTxError(result) == result.txError

\* the broadcast step of post that submits again after a transaction-level error
broadcastStep_Retry(signedTx, result) ==
  IF isTxError(result)
    THEN [signedTx EXCEPT !.err = "BroadcastError", !.msg = result.raw_log,
                          !.log = Append(Append(signedTx.log, "broadcast"), "broadcast"),
                          !.result = NoResult]
    ELSE [signedTx EXCEPT !.log = Append(signedTx.log, "broadcast"),
                          !.result = result]

\* lcd.tx.broadcastSync(signedTx, chainID), then the isTxError test
broadcastStep(signedTx, result) ==
  IF isTxError(result)
    THEN [signedTx EXCEPT !.err = "BroadcastError", !.msg = result.raw_log,
                          !.log = Append(signedTx.log, "broadcast"),
                          !.result = NoResult]
    ELSE [signedTx EXCEPT !.log = Append(signedTx.log, "broadcast"),
                          !.result = result]

postResult(chainID, password, signMode, result) ==
  LET args == [SignArgs(chainID, password, signMode) EXCEPT !.broadcast = result] IN
  IF ~wallet.connected
    THEN Failure("post", args, "NoWalletConnected", <<>>)
    ELSE LET signedTx ==
               [signResult(chainID, password, signMode) EXCEPT !.op = "post",
                                                                !.args = args]
         IN IF signedTx.err # "" THEN signedTx ELSE broadcastStep(signedTx, result)

\* the coinType expression of the seed branch of encodeEncryptedWallet
exportCoinType(key) ==
  IF key.legacy THEN LegacyCoinType ELSE DefaultCoinType

\* encodeEncryptedWallet(password); encryptThrows: whether the encrypt primitive
\* throws when it is handed undefined (a raw key record without a 330 entry)
encodeEncryptedWalletResult(password, encryptThrows) ==
  LET args == [NoArgs EXCEPT !.password = password]
      op == "encodeEncryptedWallet"
  IN
  IF ~connectedWallet.connected THEN Failure(op, args, "NoWalletConnected", <<>>)
  ELSE LET name == connectedWallet.name
           key == getKey(password)
       IN
    IF noKey(key)
      THEN Failure(op, args, "PasswordError", <<"decrypt">>)
    ELSE IF key.type = "seed"
      THEN LET seed == SeedKey(name, exportCoinType(key), key.index)
               data == [name |-> name,
                        address |-> [owner |-> name, coinType |-> seed.coinType,
                                     derived |-> TRUE],
                        encrypted_key |-> encrypt(seed, password)]
           IN [Outcome(op, args, "", "", <<"decrypt", "encrypt">>, seed, "", NoDoc,
                       Produced("blob")) EXCEPT !.blob = encode(data)]
    ELSE LET hex == IF DefaultCoinType \in key.has
                      THEN RawKey(name, DefaultCoinType)
                      ELSE NoSigningKey
             data == [name |-> name,
                      address |-> [owner |-> name, coinType |-> DefaultCoinType,
                                   derived |-> FALSE],
                      encrypted_key |-> encrypt(hex, password)]
         IN IF hex = NoSigningKey /\ encryptThrows
              THEN Failure(op, args, "TypeError", <<"decrypt", "encrypt">>)
              ELSE [Outcome(op, args, "", "", <<"decrypt", "encrypt">>, hex, "", NoDoc,
                            Produced("blob")) EXCEPT !.blob = encode(data)]

encodeEncryptedWallet(password, encryptThrows) ==
  /\ last' = encodeEncryptedWalletResult(password, encryptThrows)
  /\ UNCHANGED <<wallet, persisted, wallets, lockedByLock>>

\* the signing operations change neither the session nor the keystore
createSignature(chainID, password, accountInfo) ==
  /\ last' = createSignatureResult(chainID, password, accountInfo)
  /\ UNCHANGED <<wallet, persisted, wallets, lockedByLock>>

getPubkey(coinType, password) ==
  /\ last' = getPubkeyResult(coinType, password)
  /\ UNCHANGED <<wallet, persisted, wallets, lockedByLock>>

sign(chainID, password, signMode) ==
  /\ last' = signResult(chainID, password, signMode)
  /\ UNCHANGED <<wallet, persisted, wallets, lockedByLock>>

signBytes(bytes, password, sigOk) ==
  /\ last' = signBytesResult(bytes, password, sigOk)
  /\ UNCHANGED <<wallet, persisted, wallets, lockedByLock>>

post(chainID, password, signMode, result) ==
  /\ last' = postResult(chainID, password, signMode, result)
  /\ UNCHANGED <<wallet, persisted, wallets, lockedByLock>>

(* --------------------------- specification ----------------------------- *)
\* the stores the program may start from: "A" holds any kind of record or none,
\* "Ledger" (connectLedger's default name) holds a ledger record or none
InitialStores ==
  {ws \in UNION {[S -> StoredRecords] : S \in SUBSET Names} :
     "Ledger" \in DOMAIN ws => ws["Ledger"] \in {LedgerRecord(0, FALSE, l) : l \in BOOLEAN}}

\* no call is in flight: the caller has taken the result of its last call
Idle == SessionOutcome("idle", "", "")

Init ==
  /\ wallets \in InitialStores
  /\ wallet = NoWallet
  /\ persisted = NoWallet
  /\ lockedByLock = {}
  /\ last = Idle
  /\ keyUsed = FALSE

\* the caller awaits its calls one after the other: a call is made when the
\* previous one has returned
Returned == last = Idle

\* the caller takes the outcome of the call
Return ==
  /\ ~Returned
  /\ last' = Idle
  /\ UNCHANGED <<wallet, persisted, wallets, lockedByLock, keyUsed>>

\* a session operation that changes the session wallet starts a new history
SessionCall == keyUsed' = (keyUsed /\ wallet' = wallet)
\* a call that decrypted the key and succeeded is remembered
KeyCall ==
  keyUsed' = (keyUsed \/ (last'.err = "" /\ \E i \in 1..Len(last'.log) :
                                              last'.log[i] = "decrypt"))

Next ==
  \/ \E name \in Names : Returned /\ connect(name) /\ SessionCall
  \/ \E name \in Names : Returned /\ connectUnknown(name) /\ SessionCall
  \/ \E index \in Optional(Indexes), bluetooth \in Optional(BOOLEAN),
        name \in Optional(Names), replace \in BOOLEAN :
       Returned /\ connectLedger(index, bluetooth, name, replace) /\ SessionCall
  \/ Returned /\ disconnect /\ SessionCall
  \/ Returned /\ lock /\ SessionCall
  \/ Returned /\ getConnectedWallet /\ SessionCall
  \/ \E chainID \in ChainIDs, password \in Passwords, accountInfo \in AccountInfos :
       Returned /\ createSignature(chainID, password, accountInfo) /\ KeyCall
  \/ \E coinType \in KeyCoinTypes, password \in Passwords :
       Returned /\ getPubkey(coinType, password) /\ KeyCall
  \/ \E chainID \in ChainIDs, password \in Passwords, signMode \in SignModes :
       Returned /\ sign(chainID, password, signMode) /\ KeyCall
  \/ \E bytes \in Payloads, password \in Passwords, sigOk \in BOOLEAN :
       Returned /\ signBytes(bytes, password, sigOk) /\ KeyCall
  \/ \E chainID \in ChainIDs, password \in Passwords, signMode \in SignModes,
        result \in BroadcastResults :
       Returned /\ post(chainID, password, signMode, result) /\ KeyCall
  \/ \E password \in Passwords, encryptThrows \in BOOLEAN :
       Returned /\ encodeEncryptedWallet(password, encryptThrows) /\ KeyCall
  \/ Return

Spec == Init /\ [][Next]_vars

(* ------------------------------- claims -------------------------------- *)
InLog(e, log) == \E i \in 1..Len(log) : log[i] = e
CountInLog(e, log) == Cardinality({i \in 1..Len(log) : log[i] = e})
SigningPrimitives == {"signAmino", "createAndSignTx", "ecdsaSign"}
Signed(o) == \E e \in SigningPrimitives : InLog(e, o.log)
\* the stored record of the connected wallet
connectedRecord == wallets[wallet.name]
KeyedSession == wallet.connected /\ ~isLedger(wallet) /\ wallet.name \in DOMAIN wallets

\* C1: connect(name) of a stored wallet whose lock flag is set, of either record
\* shape, fails with WalletLocked and leaves the session wallet, the persisted
\* choice and the stored records as they were.
C1_LockedConnectFails ==
  [][\A n \in Names :
       (last'.op = "connect" /\ last'.args.name = n /\ n \in DOMAIN wallets
          /\ wallets[n].lock)
         => /\ last'.err = "WalletLocked"
            /\ wallet' = wallet
            /\ persisted' = persisted
            /\ wallets' = wallets]_vars

\* a locked descriptor-shaped record was refused while another wallet stayed connected
C1_Witness ==
  /\ last.op = "connect" /\ last.err = "WalletLocked"
  /\ ~wallets[last.args.name].address /\ wallets[last.args.name].lock
  /\ wallet.connected /\ wallet.name # last.args.name

\* C2: whenever a wallet is connected (in memory or as the persisted choice), its
\* stored record does not have the lock flag set.
C2_ConnectedNotLocked ==
  /\ wallet.connected =>
       wallet.name \in DOMAIN wallets /\ ~wallets[wallet.name].lock
  /\ persisted.connected =>
       persisted.name \in DOMAIN wallets /\ ~wallets[persisted.name].lock

\* a wallet is connected after lock() locked another one
C2_Witness ==
  /\ wallet.connected /\ lockedByLock # {}
  /\ \E n \in DOMAIN wallets : wallets[n].lock

\* C3: with a connected non-hardware wallet, createSignature, sign, signBytes (and
\* post, which signs) produce something only if the keystore decrypted a key with
\* the password of that call; when the decryption yields no key the call fails
\* with PasswordError and neither a signing primitive nor the broadcast is called.
C3_NoSignatureWithoutKey ==
  (last.op \in {"createSignature", "sign", "signBytes", "post"} /\ KeyedSession) =>
    LET pk == getDecryptedKey(wallets, wallet.name, last.args.password) IN
      /\ (last.err = "" \/ Signed(last) \/ InLog("broadcast", last.log))
           => InLog("decrypt", last.log) /\ pk.type # "none"
      /\ (InLog("decrypt", last.log) /\ pk.type = "none")
           => /\ last.err = "PasswordError"
              /\ last.result = NoResult
              /\ last.key = NoSigningKey

\* a wrong password was given for a wallet that holds a key, and the call failed
C3_Witness ==
  /\ last.op = "sign" /\ KeyedSession
  /\ connectedRecord.key.type # "none"
  /\ last.args.password # PasswordOf(wallet.name)
  /\ last.err = "PasswordError" /\ last.log = <<"decrypt">>

\* C4: for a seed record, createSignature, sign and getPubkey derive the key of coin
\* type 118 when the record is legacy and coin type 330 is asked for, and of the
\* coin type asked for in every other case.
C4_LegacyCoinType ==
  (last.op \in {"createSignature", "sign", "getPubkey"} /\ KeyedSession
     /\ last.key.kind = "seed") =>
    LET pk == connectedRecord.key IN
      last.key.coinType =
        IF pk.legacy /\ last.args.coinType = DefaultCoinType
          THEN LegacyCoinType
          ELSE last.args.coinType

\* getPubkey of a legacy seed record asked for 330 derived the key of 118
C4_Witness ==
  /\ last.op = "getPubkey" /\ KeyedSession /\ last.key.kind = "seed"
  /\ connectedRecord.key.legacy
  /\ last.args.coinType = DefaultCoinType
  /\ last.key.coinType = LegacyCoinType

\* C5 (as claimed): for a raw key record and the correct password, createSignature,
\* sign, getPubkey and signBytes (coin type 330) use the stored key of the coin type
\* when the record has the entry, and fail with PasswordError when it has not.
C5_RawKeyResolution ==
  (last.op \in {"createSignature", "sign", "getPubkey", "signBytes"} /\ KeyedSession
     /\ connectedRecord.key.type = "raw"
     /\ last.args.password = PasswordOf(wallet.name)
     /\ InLog("decrypt", last.log)) =>
    LET coinType == IF last.op = "signBytes" THEN DefaultCoinType
                                             ELSE last.args.coinType
    IN IF coinType \in connectedRecord.key.has
         THEN \/ last.err = "" /\ last.key = RawKey(wallet.name, coinType)
              \/ last.op = "signBytes" /\ last.err = "SignatureUnavailable"
         ELSE last.err = "PasswordError" /\ last.key = NoSigningKey

\* C6: signBytes with a hardware wallet connected fails with UnsupportedOperation
\* and calls neither the device nor the keystore.
C6_LedgerSignBytes ==
  (last.op = "signBytes" /\ isLedger(wallet)) =>
    /\ last.err = "UnsupportedOperation"
    /\ last.log = <<>>
    /\ last.result = NoResult
    /\ last.key = NoSigningKey

\* signBytes was refused for a connected hardware wallet, given the right password
C6_Witness ==
  /\ last.op = "signBytes" /\ isLedger(wallet)
  /\ last.args.password = PasswordOf(wallet.name)
  /\ last.err = "UnsupportedOperation"

\* C7: sign with a hardware wallet connected assembles the transaction with the
\* legacy-amino sign mode, whatever sign mode the caller passed.
C7_LedgerSignMode ==
  (last.op \in {"sign", "post"} /\ isLedger(wallet) /\ InLog("createAndSignTx", last.log))
    => last.signMode = "SIGN_MODE_LEGACY_AMINO_JSON"

\* the caller asked for SIGN_MODE_DIRECT and the hardware wallet signed legacy-amino
C7_Witness ==
  /\ last.op = "sign" /\ isLedger(wallet)
  /\ last.args.signMode = "SIGN_MODE_DIRECT"
  /\ last.signMode = "SIGN_MODE_LEGACY_AMINO_JSON"
  /\ last.result.kind = "tx"

\* C8 (as claimed): sign with a non-hardware wallet assembles the transaction with
\* the sign mode the caller passed, for a seed record and for a raw key record.
C8_CallerSignMode ==
  (last.op = "sign" /\ KeyedSession /\ InLog("createAndSignTx", last.log))
    => last.signMode = last.args.signMode

\* C9: post calls the broadcast collaborator at most once, as its last step and
\* only after the connected-wallet check, the key resolution and a successful
\* sign-and-assemble; a transaction-level error makes it fail with the raw log and
\* without a second broadcast, any other result is returned as it is.
C9_PostOrder ==
  last.op = "post" =>
    /\ CountInLog("broadcast", last.log) <= 1
    /\ ~wallet.connected => last.err = "NoWalletConnected" /\ last.log = <<>>
    /\ InLog("broadcast", last.log) =>
         /\ wallet.connected
         /\ last.log \in {<<"decrypt", "createAndSignTx", "broadcast">>,
                          <<"openDevice", "createAndSignTx", "broadcast">>}
         /\ last.key # NoSigningKey
         /\ IF isTxError(last.args.broadcast)
              THEN /\ last.err = "BroadcastError"
                   /\ last.msg = last.args.broadcast.raw_log
                   /\ last.result = NoResult
              ELSE last.err = "" /\ last.result = last.args.broadcast
    /\ ~InLog("broadcast", last.log) => last.err # "" /\ last.result = NoResult

\* post failed with the raw log of a transaction-level error after one broadcast
C9_Witness ==
  /\ last.op = "post" /\ last.err = "BroadcastError" /\ last.msg = "out of gas"
  /\ CountInLog("broadcast", last.log) = 1

\* C10: lock() with a wallet connected sets the lock flag of its stored record and
\* leaves the session disconnected and the persisted choice cleared; while the flag
\* stays set, connect(name) of that name fails with WalletLocked.
C10_LockThenConnectFails ==
  [][/\ (last'.op = "lock" /\ wallet.connected)
          => /\ last'.err = ""
             /\ wallets'[wallet.name].lock
             /\ ~wallet'.connected
             /\ ~persisted'.connected
     /\ \A n \in lockedByLock :
          /\ wallets[n].lock
          /\ (last'.op = "connect" /\ last'.args.name = n)
               => last'.err = "WalletLocked" /\ wallet' = wallet]_vars

\* a wallet locked by lock() was refused by a later connect
C10_Witness ==
  /\ last.op = "connect" /\ last.args.name \in lockedByLock
  /\ last.err = "WalletLocked"
  /\ wallets[last.args.name].lock

\* C11: getConnectedWallet returns the session wallet whenever a wallet of any
\* kind is connected and fails with NoWalletConnected exactly when none is;
\* lock() with no wallet connected fails with NoWalletConnected and changes
\* neither a stored record nor the session.
C11_GetConnected ==
  [][/\ last'.op = "getConnectedWallet" =>
          /\ wallet.connected => last'.err = "" /\ last'.returned = wallet
          /\ ~wallet.connected =>
               last'.err = "NoWalletConnected" /\ last'.returned = NoWallet
          /\ UNCHANGED <<wallet, persisted, wallets>>
     /\ (last'.op = "lock" /\ ~wallet.connected) =>
          /\ last'.err = "NoWalletConnected"
          /\ UNCHANGED <<wallet, persisted, wallets>>]_vars

\* getConnectedWallet gave back a connected hardware wallet
C11_Witness ==
  /\ last.op = "getConnectedWallet" /\ last.err = ""
  /\ last.returned = wallet /\ isLedger(wallet)

\* C12: after a successful connect(name) the session wallet is the descriptor of
\* the stored record of name; after a successful connectLedger it is a hardware
\* descriptor with the index, transport and name given (index 0, USB and "Ledger"
\* when left out), stored with lock = false; either way it replaces the wallet
\* connected before, and connectLedger calls no collaborator that takes a password.
C12_ConnectReplaces ==
  [][/\ (last'.op = "connect" /\ last'.err = "") =>
          LET n == last'.args.name IN
            /\ wallet'.connected /\ wallet'.name = n
            /\ wallet'.ledger = wallets[n].ledger
            /\ wallet'.multisig = wallets[n].multisig
            /\ persisted' = wallet'
     /\ (last'.op = "connectLedger" /\ last'.err = "") =>
          LET g == last'.args.given
              i == IF g[1] = <<>> THEN 0 ELSE g[1][1]
              b == IF g[2] = <<>> THEN FALSE ELSE g[2][1]
              n == IF g[3] = <<>> THEN "Ledger" ELSE g[3][1]
          IN /\ wallet' = Descriptor(n, FALSE, TRUE, i, b)
             /\ persisted' = wallet'
             /\ wallets'[n] = LedgerRecord(i, b, FALSE)
             /\ last'.log = <<>>]_vars

\* connectLedger() with every optional argument left out replaced the connected "A"
C12_Witness ==
  /\ last.op = "connectLedger" /\ last.err = ""
  /\ last.args.given = <<<<>>, <<>>, <<>>>>
  /\ last.before.connected /\ last.before.name = "A"
  /\ wallet.name = "Ledger" /\ isLedger(wallet) /\ wallet.index = 0

\* C13: disconnect() never fails and leaves the session disconnected and the
\* persisted choice cleared, from a connected and from a disconnected state alike
\* (a second call changes nothing more); it changes no stored record.
C13_DisconnectIdempotent ==
  [][last'.op = "disconnect" =>
       /\ last'.err = ""
       /\ wallet' = NoWallet
       /\ persisted' = NoWallet
       /\ wallets' = wallets
       /\ (wallet = NoWallet /\ persisted = NoWallet)
            => UNCHANGED <<wallet, persisted, wallets>>]_vars

\* disconnect() was called with no wallet connected, while a locked record is stored
C13_Witness ==
  /\ last.op = "disconnect" /\ last.err = ""
  /\ ~last.before.connected
  /\ ~wallet.connected /\ ~persisted.connected
  /\ \E n \in DOMAIN wallets : wallets[n].lock

\* C17: after every call of connect, connectLedger, disconnect and lock, failed or
\* not, the persisted connected-wallet choice equals the session wallet.
C17_PersistedIsSession == persisted = wallet

\* a failed connect left the wallet connected before in the session and the keystore
C17_Witness ==
  /\ last.op = "connect" /\ last.err = "WalletLocked"
  /\ wallet.connected /\ persisted = wallet /\ last.before = wallet

\* C14: with a hardware wallet connected, createSignature, sign and getPubkey
\* call neither the keystore's decryption nor its password test, and every
\* password, the empty default included, gives the outcome the call had.
C14_LedgerIgnoresPassword ==
  (last.op \in {"createSignature", "sign", "getPubkey"} /\ isLedger(wallet)) =>
    /\ ~InLog("decrypt", last.log)
    /\ ~InLog("testPassword", last.log)
    /\ \A p \in Passwords :
         LET a == last.args
             r == CASE last.op = "sign" -> signResult(a.chainID, p, a.signMode)
                    [] last.op = "getPubkey" -> getPubkeyResult(a.coinType, p)
                    [] OTHER -> createSignatureResult(a.chainID, p, a.accountInfo)
         IN [r EXCEPT !.args.password = a.password] = last

\* getPubkey succeeded for a hardware wallet with the empty default password
C14_Witness ==
  /\ last.op = "getPubkey" /\ isLedger(wallet)
  /\ last.args.password = 0
  /\ last.err = "" /\ last.key.kind = "ledger"

\* the private key the export of the connected wallet is to carry
ExportedKey ==
  LET key == connectedRecord.key IN
    IF key.type = "seed"
      THEN SeedKey(wallet.name, exportCoinType(key), key.index)
      ELSE RawKey(wallet.name, DefaultCoinType)

\* C16 (as claimed): for a connected non-hardware wallet that holds a key and the
\* correct password, encodeEncryptedWallet returns a blob whose encrypted_key,
\* decrypted with the same password, is the wallet's private key: the key derived
\* from the seed, or the stored key of coin type 330 of a raw key record.
C16_ExportRoundTrip ==
  (last.op = "encodeEncryptedWallet" /\ KeyedSession
     /\ connectedRecord.key.type # "none"
     /\ last.args.password = PasswordOf(wallet.name)) =>
    /\ last.err = ""
    /\ decode(last.blob).name = wallet.name
    /\ decrypt(decode(last.blob).encrypted_key, last.args.password) = ExportedKey
    /\ ExportedKey.kind = "raw" => ExportedKey.coinType \in connectedRecord.key.has

\* the round trip holds for every seed record and every raw key record that has
\* an entry for coin type 330
C16_RoundTripWith330 ==
  (last.op = "encodeEncryptedWallet" /\ KeyedSession
     /\ connectedRecord.key.type # "none"
     /\ last.args.password = PasswordOf(wallet.name)
     /\ (connectedRecord.key.type = "raw" =>
           DefaultCoinType \in connectedRecord.key.has)) =>
    /\ last.err = ""
    /\ decrypt(decode(last.blob).encrypted_key, last.args.password) = ExportedKey

\* the operations that use the key of the connected wallet
KeyOps == {"createSignature", "sign", "signBytes", "getPubkey",
           "encodeEncryptedWallet", "post"}

\* C15: the session wallet and the persisted connected wallet are descriptors
\* without key material, and no key-using operation writes them or the store;
\* every key-using call on a non-hardware wallet that succeeds has decrypted the
\* keystore itself, and with a password other than the wallet's it fails with
\* PasswordError or earlier, without a key, a signature or a blob, also when an
\* earlier call with the correct password has succeeded.
C15_NoCachedKey ==
  /\ [](/\ DOMAIN wallet = DOMAIN NoWallet
        /\ DOMAIN persisted = DOMAIN NoWallet
        /\ (last.op \in KeyOps /\ KeyedSession) =>
             /\ last.err = "" => InLog("decrypt", last.log)
             /\ last.args.password # PasswordOf(wallet.name) =>
                  /\ last.err # ""
                  /\ InLog("decrypt", last.log) => last.err = "PasswordError"
                  /\ ~Signed(last)
                  /\ last.key = NoSigningKey
                  /\ last.blob = NoBlob
                  /\ last.result = NoResult)
  /\ [][last'.op \in KeyOps => UNCHANGED <<wallet, persisted, wallets>>]_vars

\* a call with a wrong password is refused after a call with the correct one
\* has succeeded on the same connected wallet
C15_Witness ==
  /\ keyUsed
  /\ KeyedSession
  /\ last.op \in {"sign", "encodeEncryptedWallet"}
  /\ last.args.password # PasswordOf(wallet.name)
  /\ last.err = "PasswordError"

\* the chains whose coin type is the default one
DefaultChains == {c \in ChainIDs : networks[c].coinType = DefaultCoinType}
PresentAccounts == {a \in AccountInfos : a.present}

\* C18: for every key record of a connected non-hardware wallet and the correct
\* password, sign and createSignature on a chain of coin type 330 choose the
\* same key, signBytes signs with that key, and signBytes finds no key exactly
\* when they find none.
C18_SignBytesSameKey ==
  (KeyedSession /\ last.op \in {"signBytes", "sign", "createSignature"}
     /\ last.args.password = PasswordOf(wallet.name)) =>
    \A c \in DefaultChains, m \in SignModes, a \in PresentAccounts :
      LET pw == last.args.password
          s == signResult(c, pw, m)
          cs == createSignatureResult(c, pw, a)
          sb == signBytesResult(0, pw, TRUE)
      IN /\ s.key = cs.key
         /\ sb.key = s.key
         /\ sb.err = "" <=> s.err = ""
         /\ last.op = "signBytes" =>
              /\ last.err = "" => last.key = s.key /\ last.key # NoSigningKey
              /\ s.err # "" => last.err # ""
         /\ (last.op # "signBytes" /\ last.args.chainID = c /\ last.err = "") =>
              last.key = sb.key

\* signBytes has signed with the key of coin type 118 of a legacy seed
C18_Witness ==
  /\ KeyedSession
  /\ last.op = "signBytes"
  /\ last.err = ""
  /\ connectedRecord.key.type = "seed" /\ connectedRecord.key.legacy
  /\ last.key = SeedKey(wallet.name, LegacyCoinType, connectedRecord.key.index)

\* C19: createSignature asks for the account info before it resolves a key: with
\* no wallet connected it fails having called nothing; when the account info
\* is not retrieved it fails having called the account query only, without
\* decrypting the keystore, opening the device or signing; when it succeeds,
\* the account query came first and the signed document carries the account
\* number and the sequence of that query and the given chain id.
C19_AccountInfoFirst ==
  last.op = "createSignature" =>
    /\ last.log # <<>> => last.log[1] = "accountInfo"
    /\ CountInLog("accountInfo", last.log) <= 1
    /\ ~wallet.connected =>
         last.err = "NoWalletConnected" /\ last.log = <<>> /\ last.doc = NoDoc
    /\ (wallet.connected /\ ~last.args.accountInfo.present) =>
         /\ last.err = "AccountNotFound"
         /\ last.log = <<"accountInfo">>
         /\ last.key = NoSigningKey
         /\ last.result = NoResult
         /\ last.doc = NoDoc
    /\ last.err = "" =>
         /\ Signed(last)
         /\ last.doc.present
         /\ last.doc.chainID = last.args.chainID
         /\ last.doc.accountNumber = last.args.accountInfo.accountNumber
         /\ last.doc.sequence = last.args.accountInfo.sequence

\* createSignature has signed a document whose account number and sequence differ
C19_Witness ==
  /\ last.op = "createSignature"
  /\ last.err = ""
  /\ last.args.accountInfo.accountNumber # last.args.accountInfo.sequence
  /\ last.doc.accountNumber = last.args.accountInfo.accountNumber
  /\ last.doc.chainID = last.args.chainID

\* createSignature has failed for want of account info, asking for no key
C19_WitnessNoAccount ==
  /\ last.op = "createSignature"
  /\ last.err = "AccountNotFound"
  /\ last.args.password = PasswordOf(wallet.name)
====
